---- MODULE Spec2Model ----
(***************************************************************************)
(* The Chat component of src/components/chat.rs as a state machine: the    *)
(* component's fields, the DOM input it reads through chat_input, and one  *)
(* action per arm of Chat::update.  Strings are sequences of one-character *)
(* strings; a JSON text is the value it denotes (or "not JSON at all").    *)
(***************************************************************************)
EXTENDS Integers, Sequences, FiniteSets, TLC

\* ------------------------------------------------------------------ bounds
MaxLen == 2
MaxNames == 2
MaxMessages == 2
MaxSends == 2

Chars == {" ", "a"}
WhiteSpace == {" "}
Names == {<<"a">>, <<"b">>}
MsgTexts == {<<"a">>}

SeqsUpTo(S, n) == UNION {[1..k -> S] : k \in 0..n}
Texts == SeqsUpTo(Chars, MaxLen)
Rosters == SeqsUpTo(Names, MaxNames)

\* ------------------------------------------------------------------ state
VARIABLES
    users,          \* Chat.users
    messages,       \* Chat.messages
    is_typing,      \* Chat.is_typing
    input_value,    \* value of the <input> element behind Chat.chat_input
    username,       \* user.username taken from the context in create
    sent,           \* the try_send calls of the last step: <<[text, ok]>>
    sends,          \* number of try_send calls so far
    submits,        \* number of non-blank submits so far
    should_render,  \* what the last update returned
    lastMsg,        \* the Msg the last step handled
    panicked        \* an unwrap() panicked: the component is dead

vars == <<users, messages, is_typing, input_value, username, sent, sends, submits,
          should_render, lastMsg, panicked>>

\* ------------------------------------------------------- strings and JSON
\* A JSON field of an object: missing, null, or a value of some JSON type.
Absent(dflt) == [tag |-> "absent", val |-> dflt]
Null(dflt) == [tag |-> "null", val |-> dflt]
Number(dflt) == [tag |-> "number", val |-> dflt]
StringField(v) == [tag |-> "string", val |-> v]
ArrayField(v) == [tag |-> "array", val |-> v]

\* The content of a Rust String: plain characters, or the text of a JSON
\* object with (possibly) the fields "from" and "message".
Plain(cs) == [obj |-> FALSE, chars |-> cs, from |-> Absent(<<>>), message |-> Absent(<<>>)]
ObjText(f, m) == [obj |-> TRUE, chars |-> <<>>, from |-> f, message |-> m]

\* Option<T>
None(dflt) == [some |-> FALSE, val |-> dflt]
Some(v) == [some |-> TRUE, val |-> v]

\* Result<T, E>
Err(dflt) == [ok |-> FALSE, val |-> dflt]
Ok(v) == [ok |-> TRUE, val |-> v]

\* str::trim_start / str::trim_end / str::trim / str::is_empty
RECURSIVE trim_start(_)
trim_start(s) ==
    IF s # <<>> /\ Head(s) \in WhiteSpace THEN trim_start(Tail(s)) ELSE s

RECURSIVE trim_end(_)
trim_end(s) ==
    IF s # <<>> /\ s[Len(s)] \in WhiteSpace
    THEN trim_end(SubSeq(s, 1, Len(s) - 1))
    ELSE s

trim_Identity(s) == s

\* str::trim
trim(s) == trim_end(trim_start(s))

is_empty(s) == Len(s) = 0

\* struct MessageData { from, message }
MessageData(f, m) == [from |-> f, message |-> m]

NoMessageData == MessageData(<<>>, <<>>)

\* (a parse that does not insist on the two fields)
from_str_MessageData_Lenient(s) ==
    IF s.obj
    THEN Ok(MessageData(s.from.val, s.message.val))
    ELSE Err(NoMessageData)

\* serde_json::from_str::<MessageData>: both fields are required strings.
from_str_MessageData(s) ==
    IF s.obj /\ s.from.tag = "string" /\ s.message.tag = "string"
    THEN Ok(MessageData(s.from.val, s.message.val))
    ELSE Err(NoMessageData)

\* enum MsgTypes, and its wire names under rename_all = "lowercase"
MsgTypes == {"Users", "Register", "Message"}

MsgTypeWire(t) ==
    CASE t = "Users" -> <<"u", "s", "e", "r", "s">>
      [] t = "Register" -> <<"r", "e", "g", "i", "s", "t", "e", "r">>
      [] t = "Message" -> <<"m", "e", "s", "s", "a", "g", "e">>

\* struct WebSocketMessage { message_type, data_array, data }
WebSocketMessage(t, da, d) == [message_type |-> t, data_array |-> da, data |-> d]

NoWebSocketMessage == WebSocketMessage("Register", None(<<>>), None(Plain(<<>>)))

\* The text of a JSON envelope: fields messageType, dataArray, data.
Envelope(mt, da, d) == [obj |-> TRUE, messageType |-> mt, dataArray |-> da, data |-> d]
NotJson == [obj |-> FALSE, messageType |-> Absent(<<>>), dataArray |-> Absent(<<>>),
            data |-> Absent(Plain(<<>>))]

OptionOfField(f) == IF f.tag \in {"absent", "null"} THEN None(f.val) ELSE Some(f.val)

\* serde_json::from_str::<WebSocketMessage>: messageType is required and must
\* name a variant; the two Option fields may be missing or null.
from_str_WebSocketMessage(raw) ==
    IF /\ raw.obj
       /\ raw.messageType.tag = "string"
       /\ \E t \in MsgTypes : MsgTypeWire(t) = raw.messageType.val
       /\ raw.dataArray.tag \in {"absent", "null", "array"}
       /\ raw.data.tag \in {"absent", "null", "string"}
    THEN Ok(WebSocketMessage(
             CHOOSE t \in MsgTypes : MsgTypeWire(t) = raw.messageType.val,
             OptionOfField(raw.dataArray),
             OptionOfField(raw.data)))
    ELSE Err(NoWebSocketMessage)

\* serde_json::to_string(&WebSocketMessage): None is written as null.
to_string(m) ==
    Envelope(StringField(MsgTypeWire(m.message_type)),
             IF m.data_array.some THEN ArrayField(m.data_array.val) ELSE Null(m.data_array.val),
             IF m.data.some THEN StringField(m.data.val) ELSE Null(m.data.val))

unwrap_or_default_Keep(o) ==
    IF o.some THEN o.val ELSE [i \in 1..Len(users) |-> users[i].name]

\* Option::unwrap_or_default on Option<Vec<String>>
unwrap_or_default(o) == IF o.some THEN o.val ELSE <<>>

\* --------------------------------------------------------------- profiles
AvatarPrefix == <<"https://avatars.dicebear.com/api/adventurer-neutral/">>
AvatarSuffix == <<".svg">>

UserProfile(u) == [name |-> u, avatar |-> AvatarPrefix \o u \o AvatarSuffix]


push_Front(msgs, m) == <<m>> \o msgs

\* Vec::push on self.messages
push(msgs, m) == Append(msgs, m)

UsersFromMessage_Merge(names) ==
    users \o [i \in 1..Len(names) |-> UserProfile(names[i])]

\* users_from_message.iter().map(|u| UserProfile {..}).collect()
UsersFromMessage(names) == [i \in 1..Len(names) |-> UserProfile(names[i])]

\* ------------------------------------------------------- inbound raw texts
MT(t) == StringField(MsgTypeWire(t))
UnknownType == StringField(<<"t", "y", "p", "i", "n", "g">>)
NoArr == Absent(<<>>)
NoData == Absent(Plain(<<>>))

ChatTexts == {ObjText(StringField(f), StringField(m)) : f \in Names, m \in MsgTexts}

Payloads ==
    ChatTexts \cup
    { Plain(<<"a">>), ObjText(Absent(<<>>), StringField(<<"a">>)) }

UsersTexts ==
    {Envelope(MT("Users"), da, NoData) :
        da \in {NoArr, Null(<<>>)} \cup {ArrayField(N) : N \in Rosters}}

MessageTexts ==
    {Envelope(MT("Message"), NoArr, d) :
        d \in {NoData, Number(Plain(<<>>))} \cup {StringField(p) : p \in Payloads}}

RegisterTexts ==
    {Envelope(MT("Register"), Null(<<>>), StringField(Plain(<<"a">>)))}

RawTexts ==
    {NotJson, Envelope(UnknownType, NoArr, NoData)}
    \cup UsersTexts \cup MessageTexts \cup RegisterTexts

Msg(kind, raw) == [kind |-> kind, raw |-> raw]

register_msg_NoName(u) == WebSocketMessage("Register", None(<<>>), None(Plain(u)))

register_msg(u) == WebSocketMessage("Register", None(<<>>), Some(Plain(u)))

submit_msg_Trimmed(value) ==
    WebSocketMessage("Message", None(<<>>), Some(Plain(trim(value))))

submit_msg(value) == WebSocketMessage("Message", None(<<>>), Some(Plain(value)))

\* wss.tx.clone().try_send(text): one call, its result dropped by `let _ =`
try_send(text, ok) == <<[text |-> text, ok |-> ok]>>

\* Chat::create
create(u, ok) ==
    /\ username = u
    /\ sent = try_send(to_string(register_msg(u)), ok)
    /\ sends = 1
    /\ users = <<>>
    /\ messages = <<>>
    /\ is_typing = FALSE
    /\ input_value = <<>>
    /\ submits = 0
    /\ should_render = TRUE
    /\ lastMsg = Msg("create", NotJson)
    /\ panicked = FALSE

Init == \E u \in Names, ok \in BOOLEAN : create(u, ok)

\* Chat::update, Msg::HandleMsg(raw).  from_str(&raw).unwrap() panics on a
\* text that does not decode; the panic leaves update without a return value
\* and the component handles no further Msg.
HandleMsg(raw) ==
    LET r == from_str_WebSocketMessage(raw)
        ws_msg == r.val
        parsed == from_str_MessageData(ws_msg.data.val)
        accepted == r.ok /\ ws_msg.message_type = "Message"
                         /\ ws_msg.data.some /\ parsed.ok
    IN
    /\ ~panicked
    /\ accepted => Len(messages) < MaxMessages
    /\ lastMsg' = Msg("HandleMsg", raw)
    /\ sent' = <<>>
    /\ panicked' = ~r.ok
    /\ users' = IF r.ok /\ ws_msg.message_type = "Users"
                THEN UsersFromMessage(unwrap_or_default(ws_msg.data_array))
                ELSE users
    /\ messages' = IF accepted THEN push(messages, parsed.val) ELSE messages
    /\ should_render' = (r.ok /\ ws_msg.message_type \in {"Users", "Message"})
    /\ UNCHANGED <<is_typing, input_value, username, sends, submits>>

SubmitTyping_Keep == is_typing

\* is_typing after a message was sent
SubmitTyping == FALSE

\* Chat::update, Msg::SubmitMessage.  The button that sends this Msg is
\* rendered by the same view as the input, so chat_input.cast() is Some.
SubmitMessage(ok) ==
    LET value == input_value
        blank == is_empty(trim(value))
    IN
    /\ ~panicked
    /\ ~blank => sends < MaxSends
    /\ lastMsg' = Msg("SubmitMessage", NotJson)
    /\ sent' = IF blank THEN <<>> ELSE try_send(to_string(submit_msg(value)), ok)
    /\ sends' = sends + Len(sent')
    /\ submits' = IF blank THEN submits ELSE submits + 1
    /\ input_value' = IF blank THEN input_value ELSE <<>>
    /\ is_typing' = IF blank THEN is_typing ELSE SubmitTyping
    /\ should_render' = ~blank
    /\ UNCHANGED <<users, messages, username, panicked>>

currently_typing_NoTrim(val) == ~is_empty(val)

\* let currently_typing = !val.trim().is_empty();
currently_typing(val) == ~is_empty(trim(val))

\* The user edits the input: oninput reads input.value() and update handles
\* Msg::TypingChanged(val).
TypingChanged(val) ==
    /\ ~panicked
    /\ input_value' = val
    /\ lastMsg' = Msg("TypingChanged", NotJson)
    /\ sent' = <<>>
    /\ is_typing' = IF is_typing # currently_typing(val)
                    THEN currently_typing(val)
                    ELSE is_typing
    /\ should_render' = (is_typing # currently_typing(val))
    /\ UNCHANGED <<users, messages, username, sends, submits, panicked>>

Next ==
    \/ \E raw \in RawTexts : HandleMsg(raw)
    \/ \E ok \in BOOLEAN : SubmitMessage(ok)
    \/ \E val \in Texts : TypingChanged(val)

Spec == Init /\ [][Next]_vars

\* ------------------------------------------------- vocabulary of the claims
\* "empty after trimming", said without the code's trim
IsBlank(s) == \A i \in 1..Len(s) : s[i] \in WhiteSpace

EventIs(ev, kind) == ev.kind = kind

\* The raw text is an envelope of the given wire kind.
IsKind(raw, wire) == raw.obj /\ raw.messageType = StringField(wire)

WireUsers == <<"u", "s", "e", "r", "s">>
WireMessage == <<"m", "e", "s", "s", "a", "g", "e">>
WireRegister == <<"r", "e", "g", "i", "s", "t", "e", "r">>

\* The text is a JSON-encoded ChatMessage {from, message}.
IsChatMessage(p) == p.obj /\ p.from.tag = "string" /\ p.message.tag = "string"

\* A Message envelope carrying a payload string
HasPayload(raw) == IsKind(raw, WireMessage) /\ raw.data.tag = "string"
                   /\ raw.dataArray.tag \in {"absent", "null", "array"}

\* A Users envelope carrying a list of names
HasNames(raw) == IsKind(raw, WireUsers) /\ raw.dataArray.tag = "array"
                 /\ raw.data.tag \in {"absent", "null", "string"}

\* A Users envelope without names, or a Message envelope without payload
OmitsRequired(raw) ==
    \/ IsKind(raw, WireUsers) /\ raw.dataArray.tag \in {"absent", "null"}
                              /\ raw.data.tag \in {"absent", "null", "string"}
    \/ IsKind(raw, WireMessage) /\ raw.data.tag \in {"absent", "null"}
                                /\ raw.dataArray.tag \in {"absent", "null", "array"}

ViewStateUnchanged == UNCHANGED <<users, messages, is_typing>>

\* ------------------------------------------------------------------ claims

\* C1: in every transition messages is unchanged or gains exactly one element
\* at the end; it gains one exactly when the event is an inbound Message
\* envelope whose payload is a valid ChatMessage, and that element is the
\* ChatMessage; nothing is ever removed or reordered.
C1_MessagesAppendOnly ==
    [][ LET ev == lastMsg'
            p == ev.raw.data.val
        IN IF EventIs(ev, "HandleMsg") /\ HasPayload(ev.raw) /\ IsChatMessage(p)
           THEN messages' = Append(messages, [from |-> p.from.val, message |-> p.message.val])
           ELSE messages' = messages ]_vars

C1_Witness ==
    /\ Len(messages) = 2
    /\ messages[1] # messages[2]
    /\ EventIs(lastMsg, "HandleMsg")
    /\ HasPayload(lastMsg.raw)

\* C2 (as claimed): a Message envelope whose payload is not a ChatMessage
\* changes nothing in the view state and signals no re-render.
C2_Original ==
    [][ (EventIs(lastMsg', "HandleMsg") /\ HasPayload(lastMsg'.raw)
            /\ ~IsChatMessage(lastMsg'.raw.data.val))
        => (ViewStateUnchanged /\ should_render' = FALSE) ]_vars

\* C2 (amended): a Message envelope whose payload is not a ChatMessage changes
\* nothing in the view state, sends nothing and does not stop the view, but
\* update still returns true (a re-render is signalled).
C2_InvalidPayloadDropped ==
    [][ (EventIs(lastMsg', "HandleMsg") /\ HasPayload(lastMsg'.raw)
            /\ ~IsChatMessage(lastMsg'.raw.data.val))
        => (ViewStateUnchanged /\ sent' = <<>> /\ ~panicked'
            /\ should_render' = TRUE) ]_vars

C2_Witness ==
    /\ EventIs(lastMsg, "HandleMsg")
    /\ HasPayload(lastMsg.raw)
    /\ lastMsg.raw.data.val.obj
    /\ ~IsChatMessage(lastMsg.raw.data.val)
    /\ Len(messages) = 1
    /\ should_render

\* C3: a Users envelope with names N replaces users by one profile per name
\* of N, in order, with the avatar template filled with the name; messages and
\* is_typing are unchanged and a re-render is signalled.
C3_RosterReplaced ==
    [][ (EventIs(lastMsg', "HandleMsg") /\ HasNames(lastMsg'.raw))
        => LET N == lastMsg'.raw.dataArray.val
           IN /\ Len(users') = Len(N)
              /\ \A i \in 1..Len(N) :
                    /\ users'[i].name = N[i]
                    /\ users'[i].avatar =
                         <<"https://avatars.dicebear.com/api/adventurer-neutral/">>
                         \o N[i] \o <<".svg">>
              /\ UNCHANGED <<messages, is_typing>>
              /\ should_render' = TRUE ]_vars

C3_Witness ==
    /\ EventIs(lastMsg, "HandleMsg")
    /\ HasNames(lastMsg.raw)
    /\ Len(users) = 2
    /\ users[1].name # users[2].name
    /\ Len(messages) = 1

\* C4: a submit with input that is not blank makes exactly one send, of a
\* Message envelope whose data is the untrimmed input and whose dataArray is
\* null; then the input is empty, is_typing is false, users and messages are
\* unchanged and a re-render is signalled.
C4_SubmitSends ==
    [][ (EventIs(lastMsg', "SubmitMessage") /\ ~IsBlank(input_value))
        => /\ Len(sent') = 1
           /\ sent'[1].text = Envelope(StringField(WireMessage), Null(<<>>),
                                       StringField(Plain(input_value)))
           /\ sends' = sends + 1
           /\ input_value' = <<>>
           /\ is_typing' = FALSE
           /\ UNCHANGED <<users, messages>>
           /\ should_render' = TRUE ]_vars

C4_Witness ==
    /\ EventIs(lastMsg, "SubmitMessage")
    /\ Len(sent) = 1
    /\ sent[1].text.data.val.chars = <<" ", "a">>
    /\ input_value = <<>>

\* C5: a submit with blank input (empty or whitespace only) is a no-op:
\* messages, users, is_typing, the input text and the number of sends are
\* unchanged and no re-render is signalled.
C5_BlankSubmitNoOp ==
    [][ (EventIs(lastMsg', "SubmitMessage") /\ IsBlank(input_value))
        => /\ UNCHANGED <<messages, users, is_typing, input_value, sends>>
           /\ sent' = <<>>
           /\ should_render' = FALSE ]_vars

C5_Witness ==
    /\ EventIs(lastMsg, "SubmitMessage")
    /\ input_value = <<" ", " ">>
    /\ ~should_render
    /\ Len(messages) = 1

\* C6: an input change to text signals a re-render exactly when "text is not
\* blank" differs from the stored is_typing, and afterwards is_typing says
\* whether text is not blank; users, messages and the sends never change.
C6_TypingBoundary ==
    [][ EventIs(lastMsg', "TypingChanged")
        => /\ should_render' = (is_typing # ~IsBlank(input_value'))
           /\ is_typing' = ~IsBlank(input_value')
           /\ UNCHANGED <<users, messages, sends>>
           /\ sent' = <<>> ]_vars

C6_Witness ==
    /\ EventIs(lastMsg, "TypingChanged")
    /\ is_typing
    /\ ~should_render
    /\ input_value = <<"a", "a">>

\* C7: a raw text that does not decode as an envelope leaves the view state
\* unchanged, sends nothing, and leaves the view alive for later events.
C7_DecodeFailureSurvived ==
    [][ (EventIs(lastMsg', "HandleMsg") /\ ~from_str_WebSocketMessage(lastMsg'.raw).ok)
        => (ViewStateUnchanged /\ sent' = <<>> /\ ~panicked') ]_vars

\* C8 (as claimed): an envelope that omits the field required for its kind is
\* not applied: no state change (the roster is not replaced or cleared) and
\* no re-render.
C8_Original ==
    [][ (EventIs(lastMsg', "HandleMsg") /\ OmitsRequired(lastMsg'.raw))
        => (ViewStateUnchanged /\ should_render' = FALSE) ]_vars

\* C8 (amended): an envelope that omits the field for its kind still decodes
\* and is applied with the field taken as empty: a Users envelope without
\* names replaces the roster by the empty roster, a Message envelope without
\* payload changes no state; both signal a re-render, send nothing, and leave
\* messages and is_typing unchanged.
C8_MissingFieldApplied ==
    [][ (EventIs(lastMsg', "HandleMsg") /\ OmitsRequired(lastMsg'.raw))
        => /\ users' = IF IsKind(lastMsg'.raw, WireUsers) THEN <<>> ELSE users
           /\ UNCHANGED <<messages, is_typing>>
           /\ sent' = <<>>
           /\ ~panicked'
           /\ should_render' = TRUE ]_vars

C8_Witness ==
    /\ EventIs(lastMsg, "HandleMsg")
    /\ OmitsRequired(lastMsg.raw)
    /\ IsKind(lastMsg.raw, WireUsers)
    /\ users = <<>>
    /\ Len(messages) = 2

\* C9: after create the view is empty and has made exactly one send, the
\* Register envelope carrying the local user name, whether or not it
\* succeeded; every later send is the single Message envelope of a submit
\* with non-blank input, so the number of sends is always 1 plus the number
\* of such submits; inbound envelopes and input changes never send.
C9_Sends ==
    /\ [](/\ sends = 1 + submits
          /\ EventIs(lastMsg, "create") =>
                /\ users = <<>> /\ messages = <<>> /\ is_typing = FALSE
                /\ sends = 1
                /\ Len(sent) = 1
                /\ sent[1].text = Envelope(StringField(WireRegister), Null(<<>>),
                                           StringField(Plain(username))))
    /\ [][ LET submitted == EventIs(lastMsg', "SubmitMessage") /\ ~IsBlank(input_value)
           IN /\ submits' = submits + (IF submitted THEN 1 ELSE 0)
              /\ Len(sent') = (IF submitted THEN 1 ELSE 0)
              /\ sends' = sends + Len(sent')
              /\ \A i \in 1..Len(sent') : IsKind(sent'[i].text, WireMessage) ]_vars

C9_Witness ==
    /\ EventIs(lastMsg, "TypingChanged")
    /\ sends = 2
    /\ submits = 1
    /\ Len(users) = 1

\* C10: after every event is_typing is true exactly when the input text is
\* not blank; a submit leaves the view idle with an empty field whether or
\* not the send succeeded, and inbound envelopes never change is_typing.
C10_TypingMatchesInput ==
    /\ [](is_typing = ~IsBlank(input_value))
    /\ [][ /\ EventIs(lastMsg', "HandleMsg") => is_typing' = is_typing
           /\ (EventIs(lastMsg', "SubmitMessage") /\ sent' # <<>>)
                 => (input_value' = <<>> /\ is_typing' = FALSE) ]_vars

C10_Witness ==
    /\ EventIs(lastMsg, "SubmitMessage")
    /\ Len(sent) = 1
    /\ ~sent[1].ok
    /\ input_value = <<>>
    /\ ~is_typing

====
